---- MODULE Spec2Model ----
(***************************************************************************)
(* Process logger (src/main.rs): main creates the CSV sink, writes the     *)
(* header, installs the SIGINT/SIGTERM listener and runs the sampling      *)
(* loop run_logging_loop until the duration elapses, the flag `running`    *)
(* is cleared, or a sink operation fails.                                  *)
(*                                                                         *)
(* The sink is csv::Writer<BufWriter<File>>: the csv writer has a buffer   *)
(* of bounded capacity which it hands to the BufWriter when it is full and *)
(* on flush; the BufWriter has a buffer of bounded capacity which it       *)
(* writes to the file when it would overflow and on flush.  Bytes are      *)
(* modelled as units, one per field; a record is serialised to NumFields   *)
(* units, the last of which carries the record terminator.  Each sink      *)
(* operation is given the health of the storage while it runs: a write to  *)
(* the file either appends all its units or fails (disk full, handle       *)
(* invalid).                                                               *)
(***************************************************************************)
EXTENDS Integers, Sequences, FiniteSets, TLC

\* ---------------------------------------------------------------- bounds
MaxInterval == 1
MaxDuration == 2
MaxTime     == 2
MaxTicks    == 2

\* The bounds of the runs without failure the tick count is checked on.
TimingInterval == 2
TimingDuration == 3
TimingTime     == 4
TimingTicks    == 5

\* The capacities of the two buffers, in units.  They are 8192 bytes each
\* in the build; here the header fits and the rows of a tick of two
\* processes do not, as they do not on a machine with some hundred
\* processes.
CsvCap      == 7
BwCap       == 7

\* The fields of a record, main.rs:37-43 and main.rs:60-66.
NumFields   == 5

\* The signals main.rs:149 listens to; each is delivered at most once.
SignalKinds == {"SIGINT", "SIGTERM"}
MaxSignals  == Cardinality(SignalKinds)

\* The processes that can be running.
Pids      == {1, 2}
Intervals == 0..MaxInterval
Durations == 0..MaxDuration

\* ------------------------------------------------------------ the state
VARIABLES
    pc,          \* position of the main thread
    argv,        \* "valid" or "invalid": whether the command line parses
    pathOk,      \* whether the output path can be created
    interval,    \* Config.interval
    duration,    \* Config.duration
    now,         \* the clock (Instant::now / Local::now), in seconds
    start_time,  \* main's start_time
    wake,        \* the instant the current sleep ends
    running,     \* the AtomicBool shared by the loop and the listener
    registered,  \* Signals::new has installed the handlers
    pending,     \* signals delivered and not yet seen by the listener
    delivered,   \* signals delivered so far
    stores,      \* number of r.store(false) the listener has executed
    opened,      \* number of File::create calls that succeeded
    handle,      \* "none", "open" or "closed": the file handle
    file,        \* the content of the output file
    csvBuf,      \* the buffer of csv::Writer
    bwBuf,       \* the buffer of BufWriter
    snapshot,    \* the processes of the current tick, in enumeration order
    timestamp,   \* the timestamp of the current tick
    idx,         \* the next process of snapshot to write
    result,      \* "none", "ok" or "err": what run_logging_loop returned
    context,     \* the context of the error that was raised, "" if none
    exitCode,    \* -1 while running, else the exit status of the process
    hist         \* history of the run, read by the properties only

vars == <<pc, argv, pathOk, interval, duration, now, start_time, wake, running,
          registered, pending, delivered, stores, opened, handle, file,
          csvBuf, bwBuf, snapshot, timestamp, idx, result, context, exitCode, hist>>

\* ------------------------------------------------------------- records
\* The units of one serialised record.
Rec(kind, tick, ts, pid) ==
    [j \in 1..NumFields |-> [k |-> kind, tick |-> tick, ts |-> ts, pid |-> pid, part |-> j]]

\* The header record of write_header.
Header == Rec("hdr", 0, 0, 0)

\* The record log_processes writes for process pid in tick number tick.
Row(tick, ts, pid) == Rec("row", tick, ts, pid)

\* What a file left by an earlier run holds.
OldContent == <<[k |-> "old", tick |-> 0, ts |-> 0, pid |-> 0, part |-> 1]>>

\* The process tables System::processes can enumerate: any set of
\* processes, in any order.
Snapshots ==
    {s \in UNION {[1..n -> Pids] : n \in 0..Cardinality(Pids)} :
        \A i, j \in 1..Len(s) : i # j => s[i] # s[j]}

\* ---------------------------------------------------------------- sink
\* A sink state is [csv, bw, file, err]; err is set by the operation that
\* failed and the operation stops there.
Sink(c, b, f) == [csv |-> c, bw |-> b, file |-> f, err |-> FALSE]

\* BufWriter::flush_buf: write the buffer to the file.
BwFlushBuf(s, ok) ==
    IF s.bw = <<>> THEN s
    ELSE IF ok THEN [s EXCEPT !.file = @ \o s.bw, !.bw = <<>>]
    ELSE [s EXCEPT !.err = TRUE]

\* BufWriter::write_all: buffer data, writing the buffer out first when
\* data does not fit and passing data straight to the file when it is as
\* large as the buffer.
BwWriteAll(s, data, ok) ==
    LET s1 == IF Len(data) > BwCap - Len(s.bw) THEN BwFlushBuf(s, ok) ELSE s
    IN  IF s1.err THEN s1
        ELSE IF Len(data) >= BwCap
             THEN IF ok THEN [s1 EXCEPT !.file = @ \o data]
                        ELSE [s1 EXCEPT !.err = TRUE]
             ELSE [s1 EXCEPT !.bw = @ \o data]

\* CsvFlushBuf, had the buffer been kept after it was handed over.
CsvFlushBufKeep(s, ok) == BwWriteAll(s, s.csv, ok)

\* csv::Writer::flush_buf: hand the buffer to the BufWriter; the buffer is
\* cleared only when that succeeded.
CsvFlushBuf(s, ok) ==
    LET s1 == BwWriteAll(s, s.csv, ok)
    IN  IF s1.err THEN s1 ELSE [s1 EXCEPT !.csv = <<>>]

\* Flush, had it stopped at the csv writer's buffer.
FlushCsvOnly(s, ok) == CsvFlushBuf(s, ok)

\* csv::Writer::flush as called at main.rs:45 and main.rs:70: flush_buf,
\* then BufWriter::flush (flush_buf, then File::flush which does nothing).
Flush(s, ok) ==
    LET s1 == CsvFlushBuf(s, ok)
    IN  IF s1.err THEN s1 ELSE BwFlushBuf(s1, ok)

\* One unit into the csv buffer; a full buffer is flushed first.
CsvPut(s, u, ok) ==
    LET s1 == IF Len(s.csv) >= CsvCap THEN CsvFlushBuf(s, ok) ELSE s
    IN  IF s1.err THEN s1 ELSE [s1 EXCEPT !.csv = Append(@, u)]

RECURSIVE CsvPutAll(_, _, _)
CsvPutAll(s, units, ok) ==
    IF units = <<>> \/ s.err THEN s
    ELSE CsvPutAll(CsvPut(s, Head(units), ok), Tail(units), ok)

\* csv::Writer::write_record as called at main.rs:36 and main.rs:59.
WriteRecord(s, rec, ok) == CsvPutAll(s, rec, ok)

\* Dropping the logger at the end of main: csv::Writer's drop flushes and
\* ignores the result, BufWriter's drop writes its buffer and ignores the
\* result, then the file is closed.
DropSink(s, ok) ==
    LET s1 == Flush([s EXCEPT !.err = FALSE], ok)
    IN  BwFlushBuf([s1 EXCEPT !.err = FALSE], ok)

\* ---------------------------------------------------------------- init
Hist0 ==
    [ticks |-> 0, begun |-> 0, done |-> 0, sleeps |-> 0, rowCalls |-> 0,
     flushCalls |-> 0, hdrCalls |-> 0, stream |-> <<>>, commit |-> 0,
     sinkFailed |-> FALSE, atFail |-> <<>>, checks |-> 0, lastCheck |-> <<>>,
     firstCancelled |-> FALSE, passedAfterStore |-> 0, begunAfterStore |-> 0,
     doneAfterStore |-> 0, failedOp |-> "", logged |-> "none", snaps |-> <<>>,
     movedInTick |-> FALSE]

Init ==
    /\ pc = "parse"
    /\ argv \in {"valid", "invalid"}
    /\ pathOk \in BOOLEAN
    /\ interval \in Intervals
    /\ duration \in Durations
    /\ now = 0
    /\ start_time = 0
    /\ wake = 0
    /\ running = TRUE
    /\ registered = FALSE
    /\ pending = 0
    /\ delivered = 0
    /\ stores = 0
    /\ opened = 0
    /\ handle = "none"
    /\ file \in {<<>>, OldContent}
    /\ csvBuf = <<>>
    /\ bwBuf = <<>>
    /\ snapshot = <<>>
    /\ timestamp = 0
    /\ idx = 1
    /\ result = "none"
    /\ context = ""
    /\ exitCode = -1
    /\ hist = Hist0

Alive == pc \notin {"exited", "killed"}

\* The positions of main before the loop, and those of the loop.
InMain == {"new", "header", "signals", "start"}
InLoop == {"check", "log", "rows", "sleep", "sleeping"}

\* The counters of the loop's operations, frozen in hist.atFail when a
\* sink operation of the loop fails.
LoopOps(h) == <<h.ticks, h.begun, h.rowCalls, h.flushCalls, h.sleeps>>

\* ---------------------------------------------------------------- main
\* AfterParse, had main gone on with a default configuration.
AfterParseLenient(a) == "new"

\* Where main is after Config::from_args()?, main.rs:137: on a malformed
\* command line clap exits the process inside get_matches, main.rs:129.
AfterParse(a) == IF a = "valid" THEN "new" ELSE "exited"

\* main.rs:136-137: clap rejects a malformed command line and exits with
\* status 2 before main does anything else.
ParseArgs ==
    /\ pc = "parse"
    /\ pc' = AfterParse(argv)
    /\ exitCode' = IF argv = "valid" THEN exitCode ELSE 2
    /\ UNCHANGED <<argv, pathOk, interval, duration, now, start_time, wake, running,
                   registered, pending, delivered, stores, opened, handle,
                   file, csvBuf, bwBuf, snapshot, timestamp, idx, result, context, hist>>

\* ContextOf, had the row write been given the context of the header
\* write.
ContextOfCopied(op) ==
    CASE op = "create"       -> "Failed to create CSV file!"
      [] op = "header_write" -> "Failed to write header"
      [] op = "header_flush" -> "Failed to flush writer!"
      [] op = "row_write"    -> "Failed to write header"
      [] op = "tick_flush"   -> "Failed to flush writer!"

\* The context attached to the error of each fallible operation:
\* main.rs:25, main.rs:44, main.rs:45, main.rs:67 and main.rs:70.
ContextOf(op) ==
    CASE op = "create"       -> "Failed to create CSV file!"
      [] op = "header_write" -> "Failed to write header"
      [] op = "header_flush" -> "Failed to flush writer!"
      [] op = "row_write"    -> "Failed to write record!"
      [] op = "tick_flush"   -> "Failed to flush writer!"

\* Created, had the file been opened for appending.
CreatedAppend(old) == old

\* The content of the file after File::create, main.rs:25: create
\* truncates an existing file.
Created(old) == <<>>

\* ProcessLogger::new, main.rs:143.
NewLogger ==
    /\ pc = "new"
    /\ IF pathOk
       THEN /\ file' = Created(file)
            /\ handle' = "open"
            /\ opened' = opened + 1
            /\ context' = context
            /\ pc' = "header"
            /\ hist' = hist
       ELSE /\ context' = ContextOf("create")
            /\ pc' = "fail"
            /\ hist' = [hist EXCEPT !.failedOp = "create"]
            /\ UNCHANGED <<file, handle, opened>>
    /\ UNCHANGED <<argv, pathOk, interval, duration, now, start_time, wake, running,
                   registered, pending, delivered, stores, csvBuf, bwBuf,
                   snapshot, timestamp, idx, result, exitCode>>

\* ProcessLogger::write_header, main.rs:144: the header record, then flush.
WriteHeader ==
    /\ pc = "header"
    /\ \E ok1, ok2 \in BOOLEAN :
       LET s1 == WriteRecord(Sink(csvBuf, bwBuf, file), Header, ok1)
           s2 == IF s1.err THEN s1 ELSE Flush(s1, ok2)
           h1 == [hist EXCEPT !.hdrCalls = @ + 1, !.stream = @ \o Header]
       IN  /\ csvBuf' = s2.csv
           /\ bwBuf' = s2.bw
           /\ file' = s2.file
           /\ IF s2.err
              THEN /\ context' = IF s1.err THEN ContextOf("header_write")
                                           ELSE ContextOf("header_flush")
                   /\ pc' = "fail"
                   /\ hist' = [h1 EXCEPT !.sinkFailed = TRUE,
                                         !.failedOp = IF s1.err THEN "header_write"
                                                                ELSE "header_flush"]
              ELSE /\ context' = context
                   /\ pc' = "signals"
                   /\ hist' = [h1 EXCEPT !.commit = Len(h1.stream)]
    /\ UNCHANGED <<argv, pathOk, interval, duration, now, start_time, wake, running,
                   registered, pending, delivered, stores, opened, handle,
                   snapshot, timestamp, idx, result, exitCode>>

\* main.rs:146-155: the flag, Signals::new and the listener thread.
InitSignals ==
    /\ pc = "signals"
    /\ registered' = TRUE
    /\ running' = TRUE
    /\ pc' = "start"
    /\ UNCHANGED <<argv, pathOk, interval, duration, now, start_time, wake, pending,
                   delivered, stores, opened, handle, file, csvBuf, bwBuf,
                   snapshot, timestamp, idx, result, context, exitCode, hist>>

\* main.rs:149: Signals::new fails and `?` returns the error from main.
InitSignalsFail ==
    /\ pc = "signals"
    /\ pc' = "fail"
    /\ UNCHANGED <<argv, pathOk, interval, duration, now, start_time, wake, running,
                   registered, pending, delivered, stores, opened, handle,
                   file, csvBuf, bwBuf, snapshot, timestamp, idx, result, context,
                   exitCode, hist>>

\* main.rs:157-162: start_time = Instant::now().
StartClock ==
    /\ pc = "start"
    /\ start_time' = now
    /\ pc' = "check"
    /\ UNCHANGED <<argv, pathOk, interval, duration, now, wake, running, registered,
                   pending, delivered, stores, opened, handle, file, csvBuf,
                   bwBuf, snapshot, timestamp, idx, result, context, exitCode, hist>>

\* ------------------------------------------------------ run_logging_loop
\* Continue with the deadline compared by <=.
ContinueLeq(r, elapsed, d) == r /\ elapsed <= d

\* Continue without the load of the flag.
ContinueNoFlag(r, elapsed, d) == elapsed < d

\* Continue with the two conditions joined by ||.
ContinueOr(r, elapsed, d) == r \/ elapsed < d

\* Continue without the deadline.
ContinueNoDeadline(r, elapsed, d) == r

\* The continuation predicate of the while loop, main.rs:187.
Continue(r, elapsed, d) == r /\ elapsed < d

\* AfterLoad, had the check taken the flag with swap(false).
AfterLoadSwap(r) == FALSE

\* The flag after running.load(Ordering::SeqCst), main.rs:187: a load
\* leaves the flag as it is.
AfterLoad(r) == r

\* main.rs:187, the predicate holds: the body is entered.  At most limit
\* ticks are followed.
CheckPassTo(limit) ==
    /\ pc = "check"
    /\ Continue(running, now - start_time, duration)
    /\ hist.ticks < limit
    /\ pc' = "log"
    /\ hist' = [hist EXCEPT !.ticks = @ + 1,
                            !.checks = @ + 1,
                            !.lastCheck = <<running, now - start_time>>,
                            !.firstCancelled = IF hist.checks = 0 THEN stores > 0 ELSE @,
                            !.passedAfterStore = IF stores > 0 THEN @ + 1 ELSE @]
    /\ running' = AfterLoad(running)
    /\ UNCHANGED <<argv, pathOk, interval, duration, now, start_time, wake,
                   registered, pending, delivered, stores, opened, handle,
                   file, csvBuf, bwBuf, snapshot, timestamp, idx, result, context,
                   exitCode>>

CheckPass == CheckPassTo(MaxTicks)

\* main.rs:187 and 191, the predicate fails: the loop returns Ok(()).
CheckExit ==
    /\ pc = "check"
    /\ ~Continue(running, now - start_time, duration)
    /\ result' = "ok"
    /\ pc' = "match"
    /\ hist' = [hist EXCEPT !.checks = @ + 1,
                            !.lastCheck = <<running, now - start_time>>,
                            !.firstCancelled = IF hist.checks = 0 THEN stores > 0 ELSE @]
    /\ running' = AfterLoad(running)
    /\ UNCHANGED <<argv, pathOk, interval, duration, now, start_time, wake,
                   registered, pending, delivered, stores, opened, handle,
                   file, csvBuf, bwBuf, snapshot, timestamp, idx, context, exitCode>>

\* LoopOnErr, had the loop ignored the result of log_processes and gone on
\* to the sleep.
LoopOnErrSwallow == [pc |-> "sleep", result |-> "none"]

\* LoopOnErr, had the loop left on an error with break.
LoopOnErrBreak == [pc |-> "match", result |-> "ok"]

\* What the loop does when log_processes returns an error, main.rs:188:
\* `?` returns the error from run_logging_loop.
LoopOnErr == [pc |-> "match", result |-> "err"]

\* log_processes, main.rs:51-52: refresh the process table and take the
\* timestamp.
LogBegin ==
    /\ pc = "log"
    /\ \E s \in Snapshots : snapshot' = s
    /\ timestamp' = now
    /\ idx' = 1
    /\ pc' = "rows"
    /\ hist' = [hist EXCEPT !.begun = @ + 1,
                            !.begunAfterStore = IF stores > 0 THEN @ + 1 ELSE @,
                            !.snaps = Append(@, [procs |-> snapshot', ts |-> now])]
    /\ UNCHANGED <<argv, pathOk, interval, duration, now, start_time, wake, running,
                   registered, pending, delivered, stores, opened, handle,
                   file, csvBuf, bwBuf, result, context, exitCode>>

\* Proc, had every row been written for the first process.
ProcFirst(s, i) == s[1]

\* The process of the i-th iteration of the for loop, main.rs:54.
Proc(s, i) == s[i]

\* RowStamp, had the timestamp been taken anew for each row.
RowStampNow(captured, clock) == clock

\* The timestamp field of a row, main.rs:61: the string captured at
\* main.rs:52, whatever the clock reads when the row is written.
RowStamp(captured, clock) == captured

\* log_processes, main.rs:54-68: the record of the next process; an error
\* returns from log_processes and, by `?` at main.rs:188, from the loop.
RowWrite ==
    /\ pc = "rows"
    /\ idx <= Len(snapshot)
    /\ \E ok \in BOOLEAN :
       LET rec == Row(hist.ticks, RowStamp(timestamp, now), Proc(snapshot, idx))
           s1  == WriteRecord(Sink(csvBuf, bwBuf, file), rec, ok)
           h1  == [hist EXCEPT !.rowCalls = @ + 1, !.stream = @ \o rec]
       IN  /\ csvBuf' = s1.csv
           /\ bwBuf' = s1.bw
           /\ file' = s1.file
           /\ IF s1.err
              THEN /\ context' = ContextOf("row_write")
                   /\ result' = LoopOnErr.result
                   /\ pc' = LoopOnErr.pc
                   /\ idx' = 1
                   /\ snapshot' = <<>>
                   /\ timestamp' = 0
                   /\ hist' = [h1 EXCEPT !.sinkFailed = TRUE, !.atFail = LoopOps(h1),
                                         !.failedOp = "row_write",
                                         !.movedInTick = FALSE]
              ELSE /\ idx' = idx + 1
                   /\ pc' = pc
                   /\ hist' = h1
                   /\ UNCHANGED <<context, result, snapshot, timestamp>>
    /\ UNCHANGED <<argv, pathOk, interval, duration, now, start_time, wake, running,
                   registered, pending, delivered, stores, opened, handle, exitCode>>

\* log_processes, main.rs:70-71: flush after the last record.
LogFlush ==
    /\ pc = "rows"
    /\ idx > Len(snapshot)
    /\ \E ok \in BOOLEAN :
       LET s1 == Flush(Sink(csvBuf, bwBuf, file), ok)
           h1 == [hist EXCEPT !.flushCalls = @ + 1, !.movedInTick = FALSE]
       IN  /\ csvBuf' = s1.csv
           /\ bwBuf' = s1.bw
           /\ file' = s1.file
           /\ IF s1.err
              THEN /\ context' = ContextOf("tick_flush")
                   /\ result' = LoopOnErr.result
                   /\ pc' = LoopOnErr.pc
                   /\ hist' = [h1 EXCEPT !.sinkFailed = TRUE, !.atFail = LoopOps(h1),
                                         !.failedOp = "tick_flush"]
              ELSE /\ pc' = "sleep"
                   /\ hist' = [h1 EXCEPT !.done = @ + 1, !.commit = Len(h1.stream),
                                         !.doneAfterStore = IF stores > 0 THEN @ + 1 ELSE @]
                   /\ UNCHANGED <<context, result>>
    /\ idx' = 1
    /\ snapshot' = <<>>
    /\ timestamp' = 0
    /\ UNCHANGED <<argv, pathOk, interval, duration, now, start_time, wake, running,
                   registered, pending, delivered, stores, opened, handle, exitCode>>

\* WakeAt, had the loop not slept.
WakeAtOnce(clock, i) == clock

\* The earliest instant thread::sleep(Duration::from_secs(interval)),
\* main.rs:185 and 189, returns when called at clock.
WakeAt(clock, i) == clock + i

\* main.rs:189: thread::sleep begins; it ends no earlier than interval
\* seconds later.
Sleep ==
    /\ pc = "sleep"
    /\ wake' = WakeAt(now, interval)
    /\ pc' = "sleeping"
    /\ hist' = [hist EXCEPT !.sleeps = @ + 1]
    /\ UNCHANGED <<argv, pathOk, interval, duration, now, start_time, running,
                   registered, pending, delivered, stores, opened, handle,
                   file, csvBuf, bwBuf, snapshot, timestamp, idx, result, context,
                   exitCode>>

\* Woken, had the sleep been cut short by the cancellation.
WokenOrCancelled(clock, w, r) == clock >= w \/ ~r

\* thread::sleep, main.rs:189, returns once the clock has reached the end
\* of the interval; the flag plays no part in it.
Woken(clock, w, r) == clock >= w

\* main.rs:189: thread::sleep returns and the loop re-checks.
SleepEnd ==
    /\ pc = "sleeping"
    /\ Woken(now, wake, running)
    /\ wake' = 0
    /\ pc' = "check"
    /\ UNCHANGED <<argv, pathOk, interval, duration, now, start_time, running,
                   registered, pending, delivered, stores, opened, handle,
                   file, csvBuf, bwBuf, snapshot, timestamp, idx, result, context,
                   exitCode, hist>>

\* ------------------------------------------------------- the end of main
\* main.rs:172-175: the result of the loop is logged, Ok by info! and Err
\* by error!.
Match ==
    /\ pc = "match"
    /\ pc' = "ret"
    /\ hist' = [hist EXCEPT !.logged = IF result = "err" THEN "error" ELSE "info"]
    /\ UNCHANGED <<argv, pathOk, interval, duration, now, start_time, wake, running,
                   registered, pending, delivered, stores, opened, handle,
                   file, csvBuf, bwBuf, snapshot, timestamp, idx, result, context,
                   exitCode>>

\* ExitStatus, had main returned the result of the loop.
ExitStatusPropagate(res) == IF res = "err" THEN 1 ELSE 0

\* The exit status of main after the match of main.rs:172-175: the result
\* of the loop is only logged and main returns Ok(()) at main.rs:177.
ExitStatus(res) == 0

\* Released, had the logger been leaked instead of dropped.
ReleasedLeak(h) == h

\* The handle once main returns, main.rs:178: the logger goes out of scope
\* and the File inside it is closed.
Released(h) == "closed"

\* main.rs:177-178: main returns Ok(()); the logger is dropped.
MainReturn ==
    /\ pc = "ret"
    /\ \E ok \in BOOLEAN :
       LET s1 == DropSink(Sink(csvBuf, bwBuf, file), ok)
       IN  /\ file' = s1.file
           /\ csvBuf' = <<>>
           /\ bwBuf' = <<>>
    /\ handle' = Released(handle)
    /\ exitCode' = ExitStatus(result)
    /\ pc' = "exited"
    /\ UNCHANGED <<argv, pathOk, interval, duration, now, start_time, wake, running,
                   registered, pending, delivered, stores, opened, snapshot,
                   timestamp, idx, result, context, hist>>

\* FailStatus, had main caught the error and returned Ok(()).
FailStatusCaught(ctx) == 0

\* The exit status when main returns Err: the runtime prints the error and
\* the process exits with status 1.
FailStatus(ctx) == 1

\* A `?` of main.rs:137-149 returns Err from main: the logger, if it was
\* created, is dropped and the process exits with status 1.
MainFail ==
    /\ pc = "fail"
    /\ IF handle = "open"
       THEN \E ok \in BOOLEAN :
            LET s1 == DropSink(Sink(csvBuf, bwBuf, file), ok)
            IN  /\ file' = s1.file
                /\ csvBuf' = <<>>
                /\ bwBuf' = <<>>
                /\ handle' = Released(handle)
       ELSE UNCHANGED <<file, csvBuf, bwBuf, handle>>
    /\ exitCode' = FailStatus(context)
    /\ pc' = "exited"
    /\ UNCHANGED <<argv, pathOk, interval, duration, now, start_time, wake, running,
                   registered, pending, delivered, stores, opened, snapshot,
                   timestamp, idx, result, context, hist>>

\* ------------------------------------------------------- the environment
\* SIGINT or SIGTERM is delivered: before Signals::new the default action
\* terminates the process, afterwards the signal is queued for the listener.
\* Signals that arrive once the loop has returned are left out: nothing
\* reads the flag any more.
Signal ==
    /\ pc \in InMain \cup InLoop
    /\ delivered < MaxSignals
    /\ delivered' = delivered + 1
    /\ IF registered
       THEN pending' = pending + 1 /\ pc' = pc
       ELSE pending' = pending /\ pc' = "killed"
    /\ UNCHANGED <<argv, pathOk, interval, duration, now, start_time, wake, running,
                   registered, stores, opened, handle, file, csvBuf, bwBuf,
                   snapshot, timestamp, idx, result, context, exitCode, hist>>

\* Stored, had the listener toggled the flag.
StoredToggle(r) == ~r

\* The value the listener stores into the flag, main.rs:153.
Stored(r) == FALSE

\* The listener thread, main.rs:150-155: one iteration of
\* `for _ in signals.forever()`.
Listener ==
    /\ Alive
    /\ registered
    /\ pending > 0
    /\ pending' = pending - 1
    /\ running' = Stored(running)
    /\ stores' = stores + 1
    /\ UNCHANGED <<pc, argv, pathOk, interval, duration, now, start_time, wake,
                   registered, delivered, opened, handle, file, csvBuf, bwBuf,
                   snapshot, timestamp, idx, result, context, exitCode, hist>>

\* The clock advances.  Time is counted from the instant main takes
\* start_time, up to limit and, during a sleep, up to its end.
TockTo(limit) ==
    /\ pc \in InLoop
    /\ now < limit \/ (pc = "sleeping" /\ now < wake)
    /\ now' = now + 1
    /\ hist' = [hist EXCEPT !.movedInTick =
                    @ \/ (pc = "rows" /\ idx > 1 /\ idx <= Len(snapshot))]
    /\ UNCHANGED <<pc, argv, pathOk, interval, duration, start_time, wake, running,
                   registered, pending, delivered, stores, opened, handle,
                   file, csvBuf, bwBuf, snapshot, timestamp, idx, result, context,
                   exitCode>>

Tock == TockTo(MaxTime)

Next ==
    \/ ParseArgs
    \/ NewLogger
    \/ WriteHeader
    \/ InitSignals
    \/ InitSignalsFail
    \/ StartClock
    \/ CheckPass
    \/ CheckExit
    \/ LogBegin
    \/ RowWrite
    \/ LogFlush
    \/ Sleep
    \/ SleepEnd
    \/ Match
    \/ MainReturn
    \/ MainFail
    \/ Signal
    \/ Listener
    \/ Tock

Spec == Init /\ [][Next]_vars

\* The sink operation of the step succeeds.
SinkOk == ~hist'.sinkFailed

\* ------------------------------------------------------------ fairness
\* The runs the termination of the loop is checked on: a valid command
\* line, every interval and duration, a path that can be created and a
\* header that is written, so that the loop is entered; in the loop, sink
\* failures, one signal at most, and process tables of at most one
\* process.
LiveInit ==
    /\ pc = "parse"
    /\ argv = "valid"
    /\ pathOk = TRUE
    /\ interval \in Intervals
    /\ duration \in Durations
    /\ now = 0
    /\ start_time = 0
    /\ wake = 0
    /\ running = TRUE
    /\ registered = FALSE
    /\ pending = 0
    /\ delivered = 0
    /\ stores = 0
    /\ opened = 0
    /\ handle = "none"
    /\ file = <<>>
    /\ csvBuf = <<>>
    /\ bwBuf = <<>>
    /\ snapshot = <<>>
    /\ timestamp = 0
    /\ idx = 1
    /\ result = "none"
    /\ context = ""
    /\ exitCode = -1
    /\ hist = Hist0

LiveWriteHeader == WriteHeader /\ SinkOk

LiveLogBegin == LogBegin /\ Len(snapshot') <= 1

LiveSignal == Signal /\ registered /\ delivered = 0

\* The steps of the thread that runs the loop.
LoopStep ==
    \/ CheckPass
    \/ CheckExit
    \/ LiveLogBegin
    \/ RowWrite
    \/ LogFlush
    \/ Sleep
    \/ SleepEnd

LiveNext ==
    \/ ParseArgs
    \/ NewLogger
    \/ LiveWriteHeader
    \/ InitSignals
    \/ StartClock
    \/ LoopStep
    \/ Match
    \/ MainReturn
    \/ LiveSignal
    \/ Listener
    \/ Tock

\* Every call of the loop returns and the clock keeps advancing: the loop
\* takes its next step whenever it can, and so does the clock.  Nothing is
\* assumed of the signals or of the listener.
LiveSpec == LiveInit /\ [][LiveNext]_vars /\ WF_vars(LoopStep) /\ WF_vars(Tock)

\* ------------------------------------------------- runs without failure
\* The runs the tick count is stated for: a valid command line with
\* interval >= 1 and duration >= 1, a path that can be created, no signal
\* and no sink failure.  The clock may advance at any position of the
\* loop once the first check is made, so the work of a tick and the sleep
\* take any time; the first check, main.rs:187, follows the capture of
\* start_time, main.rs:162, with nothing but the call in between, within
\* the same second.
TimingInit ==
    /\ pc = "parse"
    /\ argv = "valid"
    /\ pathOk = TRUE
    /\ interval \in 1..TimingInterval
    /\ duration \in 1..TimingDuration
    /\ now = 0
    /\ start_time = 0
    /\ wake = 0
    /\ running = TRUE
    /\ registered = FALSE
    /\ pending = 0
    /\ delivered = 0
    /\ stores = 0
    /\ opened = 0
    /\ handle = "none"
    /\ file \in {<<>>, OldContent}
    /\ csvBuf = <<>>
    /\ bwBuf = <<>>
    /\ snapshot = <<>>
    /\ timestamp = 0
    /\ idx = 1
    /\ result = "none"
    /\ context = ""
    /\ exitCode = -1
    /\ hist = Hist0

TimingWriteHeader == WriteHeader /\ SinkOk

TimingRowWrite == RowWrite /\ SinkOk

TimingLogFlush == LogFlush /\ SinkOk

TimingCheckPass == CheckPassTo(TimingTicks)

TimingTock == TockTo(TimingTime) /\ hist.checks > 0

TimingNext ==
    \/ ParseArgs
    \/ NewLogger
    \/ TimingWriteHeader
    \/ InitSignals
    \/ StartClock
    \/ TimingCheckPass
    \/ CheckExit
    \/ LogBegin
    \/ TimingRowWrite
    \/ TimingLogFlush
    \/ Sleep
    \/ SleepEnd
    \/ Match
    \/ MainReturn
    \/ TimingTock

SpecTiming == TimingInit /\ [][TimingNext]_vars

\* =========================================================== properties
\* The first NumFields units of a sequence, or all of it if it is shorter.
FirstRecord(f) == SubSeq(f, 1, IF Len(f) < NumFields THEN Len(f) ELSE NumFields)

\* write_header has returned Ok.
HeaderDone == hist.commit > 0

\* C1: the header is written exactly once and before any data row: once
\* the file is created its first record is the header (complete as soon as
\* write_header has returned), no later unit belongs to a header, and
\* write_header is called at most once, whatever the ticks, signals and
\* sink failures.
C1_HeaderOnceFirst ==
    /\ hist.hdrCalls <= 1
    /\ handle # "none" =>
         /\ FirstRecord(file) = FirstRecord(Header) \/ file = <<>>
         /\ Len(file) > 0 => Len(file) >= NumFields
         /\ \A i \in 1..Len(file) : i > NumFields => file[i].k = "row"
         /\ \A i \in 1..Len(file) : i <= NumFields => file[i] = Header[i]
    /\ HeaderDone => (hist.hdrCalls = 1 /\ Len(file) >= NumFields)

\* C1 witness: a tick has been completed, a signal was handled and a sink
\* operation of the second tick failed; the file holds rows after the
\* header.
C1_Witness ==
    /\ hist.done = 1
    /\ hist.ticks = 2
    /\ hist.sinkFailed
    /\ stores > 0
    /\ Len(file) > NumFields

\* C2: with duration 0 no tick is ever started; the loop returns Ok and
\* the file holds exactly the header.
C2_ZeroDuration ==
    duration = 0 =>
        /\ hist.ticks = 0
        /\ hist.rowCalls = 0
        /\ result # "err"
        /\ hist.checks > 0 => (result = "ok" /\ file = Header)

\* C2 witness: a run with duration 0 and interval 1 has exited after its
\* loop returned.
C2_Witness ==
    /\ duration = 0
    /\ interval = 1
    /\ pc = "exited"
    /\ result = "ok"
    /\ file = Header

\* C3: if the listener has cleared the flag before the first continuation
\* check, no tick is started, the loop returns Ok and the file holds only
\* the header.
C3_CancelBeforeFirstCheck ==
    hist.firstCancelled =>
        /\ hist.ticks = 0
        /\ hist.rowCalls = 0
        /\ result = "ok"
        /\ file = Header
        /\ exitCode \in {-1, 0}

\* C3 witness: the flag was cleared before the first check of a run whose
\* duration would have allowed a tick, and the process has exited.
C3_Witness ==
    /\ hist.firstCancelled
    /\ duration > 0
    /\ now - start_time < duration
    /\ pc = "exited"

Committed == SubSeq(hist.stream, 1, hist.commit)

\* f is the first n units of g, for some n of at least lo.
PrefixFrom(f, g, lo) == Len(f) >= lo /\ Len(f) <= Len(g) /\ f = SubSeq(g, 1, Len(f))

BetweenTicks ==
    \/ pc \in {"signals", "start", "check", "log", "sleep", "sleeping"}
    \/ (pc \in {"match", "ret"} /\ result = "ok")

\* C6: whenever write_header or log_processes has returned Ok, both
\* buffers of the sink are empty and the file holds the header and every
\* row of every tick completed so far, one record per write_record call.
C6_FlushedEveryTick ==
    BetweenTicks =>
        /\ csvBuf = <<>>
        /\ bwBuf = <<>>
        /\ file = hist.stream
        /\ Len(file) = NumFields * (1 + hist.rowCalls)
        /\ hist.flushCalls = hist.done

\* C6 witness: the sleep after a second completed tick, with the rows of
\* two ticks of two processes each in the file.
C6_Witness ==
    /\ pc = "sleep"
    /\ hist.done = 2
    /\ hist.rowCalls = 4
    /\ Len(file) = NumFields * 5

\* C7: once the listener has cleared the flag, no continuation check
\* passes any more, and at most one tick (the one whose check had passed)
\* begins, completes and is slept for.
C7_AtMostOneTickAfterCancel ==
    /\ hist.passedAfterStore = 0
    /\ hist.begunAfterStore <= 1
    /\ hist.doneAfterStore <= 1
    /\ (stores > 0 /\ pc = "check") => ~running

\* C7 witness: the flag was cleared between a passed check and the
\* snapshot; that tick ran to its end and the loop then returned, before
\* the deadline.
C7_Witness ==
    /\ hist.begunAfterStore = 1
    /\ hist.doneAfterStore = 1
    /\ result = "ok"
    /\ hist.lastCheck[2] < duration
    /\ hist.ticks = 1

\* C8 (as claimed): the listener performs exactly one store and then
\* exits.
C8_OneStoreOnly == stores <= 1

\* C8 (amended): once the flag reads cancelled it reads cancelled in every
\* later state, for any number and order of signals; the listener does not
\* exit after its first store but stores cancelled again for every further
\* signal.
C8_NeverReset == [][(~running) => (~running')]_vars

\* C8 witness: both signals were delivered and handled, and the flag reads
\* cancelled.
C8_Witness ==
    /\ stores = 2
    /\ ~running

\* C9: the loop has returned Ok exactly when its last continuation check
\* found the flag cleared or the duration used up, and has returned an
\* error exactly when a sink operation of a tick failed; a cancellation or
\* a deadline in the tick of the failure leaves the error an error.
C9_OkOrErr ==
    /\ result = "ok" <=> (/\ hist.lastCheck # <<>>
                          /\ (~hist.lastCheck[1] \/ hist.lastCheck[2] >= duration))
    /\ result = "err" <=> hist.atFail # <<>>
    /\ result = "ok" => hist.atFail = <<>>
    /\ result = "none" => pc \notin {"match", "ret"}

\* C9 witness: a sink operation failed in a tick during which the flag was
\* cleared and the deadline passed; the loop returned the error.
C9_Witness ==
    /\ result = "err"
    /\ ~running
    /\ now - start_time >= duration
    /\ pc = "ret"

\* C10: a process whose loop has returned exits with status 0, whether the
\* loop returned Ok or an error, and a run that has reached the loop ends
\* in no other way.
C10_ExitZero ==
    /\ (pc = "exited" /\ hist.checks > 0) => (exitCode = 0 /\ result # "none")
    /\ (pc = "exited" /\ result # "none") => exitCode = 0
    /\ pc = "killed" => hist.checks = 0

\* C10 witness: the loop returned an error and the process has exited with
\* status 0.
C10_Witness ==
    /\ pc = "exited"
    /\ result = "err"
    /\ exitCode = 0

\* C11 (as claimed): on every error path the error is caught in main and
\* the process exits cleanly, with status 0.
C11_EveryErrorCaught == pc = "exited" => exitCode = 0

\* C11 (amended): only an error of the loop is caught in main: it is
\* logged by error! and the process exits with status 0.  A malformed
\* command line, a file that cannot be created, a header write or flush
\* that fails and a Signals::new that fails leave main before the match:
\* nothing is logged by main and the exit status is not 0.
C11_OnlyLoopErrorCaught ==
    pc = "exited" =>
        /\ result = "err" => (exitCode = 0 /\ hist.logged = "error")
        /\ result = "ok" => (exitCode = 0 /\ hist.logged = "info")
        /\ result = "none" => (exitCode \in {1, 2} /\ hist.logged = "none")
        /\ argv = "invalid" => exitCode = 2
        /\ hist.failedOp \in {"create", "header_write", "header_flush"} => exitCode = 1

\* C11 witness: the flush of the header failed and the process has exited
\* with status 1, nothing logged by main.
C11_Witness ==
    /\ pc = "exited"
    /\ hist.failedOp = "header_flush"
    /\ exitCode = 1
    /\ hist.logged = "none"

\* The failure a context names when read as one of the four failures of
\* the claim: creation, header, row write, tick flush.
FailureNamed(c) ==
    CASE c = "Failed to create CSV file!" -> "creation"
      [] c = "Failed to write header"     -> "header"
      [] c = "Failed to write record!"    -> "row"
      [] c = "Failed to flush writer!"    -> "tick flush"
      [] OTHER                            -> "none"

\* Which of the four failures the failed operation is.
FailureOf(op) ==
    CASE op = "create"                           -> "creation"
      [] op \in {"header_write", "header_flush"} -> "header"
      [] op = "row_write"                        -> "row"
      [] op = "tick_flush"                       -> "tick flush"
      [] OTHER                                   -> "none"

\* The call a context names, and the call a failed operation made.
CallNamed(c) ==
    CASE c = "Failed to create CSV file!" -> "File::create"
      [] c = "Failed to write header"     -> "write_record of the header"
      [] c = "Failed to write record!"    -> "write_record of a row"
      [] c = "Failed to flush writer!"    -> "flush"
      [] OTHER                            -> "none"

CallOf(op) ==
    CASE op = "create"                         -> "File::create"
      [] op = "header_write"                   -> "write_record of the header"
      [] op = "row_write"                      -> "write_record of a row"
      [] op \in {"header_flush", "tick_flush"} -> "flush"
      [] OTHER                                 -> "none"

\* C12 (as claimed): the context of a failure tells which of creation,
\* header, row write and tick flush failed.
C12_ContextPerFailure ==
    hist.failedOp # "" => FailureNamed(context) = FailureOf(hist.failedOp)

\* C12 (amended): the context of a failure tells which call failed:
\* File::create, the write_record of the header, the write_record of a row,
\* or flush.  The flush of write_header and the flush of a tick carry the
\* same context, so a header failure that comes from its flush is reported
\* with the context of a tick flush failure.
C12_ContextPerCall ==
    /\ hist.failedOp # "" => CallNamed(context) = CallOf(hist.failedOp)
    /\ hist.failedOp = "" <=> context = ""

\* C12 witness: write_header failed in its flush and the error carries the
\* context of flush.
C12_Witness ==
    /\ hist.failedOp = "header_flush"
    /\ context = "Failed to flush writer!"
    /\ pc = "fail"

\* The rows of the processes procs[i..], in order, for tick t stamped ts.
RECURSIVE RowsFrom(_, _, _, _)
RowsFrom(t, ts, procs, i) ==
    IF i > Len(procs) THEN <<>>
    ELSE Row(t, ts, procs[i]) \o RowsFrom(t, ts, procs, i + 1)

\* The header followed by one row for each process of the snapshot of
\* each of the first n ticks.
RECURSIVE Expected(_)
Expected(n) ==
    IF n = 0 THEN Header
    ELSE Expected(n - 1) \o RowsFrom(n, hist.snaps[n].ts, hist.snaps[n].procs, 1)

\* C13: a tick runs snapshot, rows, flush, sleep, re-check in this order,
\* and a successful tick appends exactly one row for each process of its
\* snapshot, in the order of the snapshot: after a tick the file is the
\* header and, tick by tick, the rows of that tick's snapshot; the flush
\* comes after the last row and before the sleep.
C13_TickOrderAndRows ==
    /\ BetweenTicks => (hist.done = Len(hist.snaps) \/ pc = "log") /\ file = Expected(hist.done)
    /\ pc = "log" => /\ hist.begun = hist.ticks - 1
                     /\ hist.flushCalls = hist.ticks - 1
                     /\ hist.sleeps = hist.ticks - 1
    /\ pc = "rows" => /\ hist.begun = hist.ticks
                      /\ hist.flushCalls = hist.ticks - 1
                      /\ hist.sleeps = hist.ticks - 1
                      /\ snapshot = hist.snaps[hist.ticks].procs
                      /\ hist.stream = Expected(hist.done)
                                       \o SubSeq(RowsFrom(hist.ticks, timestamp, snapshot, 1),
                                                 1, NumFields * (idx - 1))
    /\ pc = "sleep" => /\ hist.flushCalls = hist.ticks
                       /\ hist.done = hist.ticks
                       /\ hist.sleeps = hist.ticks - 1
    /\ pc \in {"sleeping", "check"} => /\ hist.flushCalls = hist.ticks
                                       /\ hist.done = hist.ticks
                                       /\ hist.sleeps = hist.ticks

\* C13 witness: two ticks have been completed, the first over the
\* processes 2 and 1 in this order and the second over process 1, and the
\* second sleep is under way.
C13_Witness ==
    /\ pc = "sleeping"
    /\ hist.done = 2
    /\ hist.snaps[1].procs = <<2, 1>>
    /\ hist.snaps[2].procs = <<1>>
    /\ Len(file) = NumFields * 4

\* Every row unit of f carries the timestamp taken when its tick began.
StampedAtBegin(f) ==
    \A i \in 1..Len(f) : f[i].k = "row" => f[i].ts = hist.snaps[f[i].tick].ts

\* C14: the timestamp is taken once per tick: every row, in the file and
\* in what has been handed to the sink, carries the timestamp taken when
\* its tick began, so all rows of a tick carry the same one, also when the
\* clock advances between two rows of the tick.
C14_OneTimestampPerTick ==
    /\ StampedAtBegin(hist.stream)
    /\ StampedAtBegin(file)
    /\ pc = "rows" => timestamp = hist.snaps[hist.ticks].ts

\* C14 witness: the clock advanced between the two rows of a tick and both
\* rows have been written.
C14_Witness ==
    /\ pc = "rows"
    /\ Len(snapshot) = 2
    /\ idx = 3
    /\ hist.movedInTick
    /\ now > timestamp

C17_LoopOnlyReads ==
    [][/\ (pc \in InLoop /\ pc' # pc) => running' = running
       /\ (pc \in InLoop /\ (hist' # hist \/ idx' # idx)) => running' = running
       /\ (pc \in InLoop /\ running' # running) =>
              (stores' = stores + 1 /\ pending' = pending - 1 /\ pc' = pc)]_vars

\* C17 witness: the loop has returned Ok at the deadline, after a full tick
\* and its sleep, and the flag is still set.
C17_Witness ==
    /\ pc = "match"
    /\ result = "ok"
    /\ running
    /\ hist.sleeps >= 1
    /\ stores = 0

\* C18: a tick that has passed its check is left only step by step:
\* snapshot, every row, flush, the sleep to its end and then the next
\* check, unless a sink operation fails, also when the flag is cleared or
\* the deadline passes meanwhile.  The loop returns Ok only from a check,
\* and a check compares the clock with start_time, which does not change
\* during the loop.
C18_TickNotInterrupted ==
    [][/\ pc = "log" => pc' \in {"log", "rows"}
       /\ pc = "rows" =>
             \/ pc' = "rows"
             \/ pc' = "sleep" /\ idx > Len(snapshot) /\ hist'.done = hist.done + 1
             \/ pc' = "match" /\ result' = "err" /\ hist'.sinkFailed
       /\ pc = "sleep" => pc' \in {"sleep", "sleeping"}
       /\ (pc = "sleep" /\ pc' = "sleeping") => wake' = now + interval
       /\ pc = "sleeping" => (pc' \in {"sleeping", "check"} /\ (pc' = "sleeping" => wake' = wake))
       /\ (pc = "sleeping" /\ pc' = "check") => now >= wake
       /\ (result = "none" /\ result' = "ok") =>
             (pc = "check" /\ ~(running /\ now - start_time < duration))
       /\ (pc = "check" /\ pc' = "log") => (running /\ now - start_time < duration)
       /\ pc \in InLoop => start_time' = start_time]_vars

\* C18 witness: during the sleep of a tick whose check had passed before
\* any signal, the flag is cleared and the deadline has passed, and the
\* sleep is not over.
C18_Witness ==
    /\ pc = "sleeping"
    /\ ~running
    /\ now - start_time >= duration
    /\ now < wake
    /\ hist.passedAfterStore = 0

\* C20: on a malformed command line nothing else happens: the file is
\* never created, truncated or written, no handle is opened, the listener
\* is not registered, the loop is not entered, and the process exits with
\* status 2 and the file as it was.
C20_ConfigErrorFirst ==
    [][argv = "invalid" =>
           /\ file' = file
           /\ handle' = "none"
           /\ opened' = 0
           /\ registered' = FALSE
           /\ stores' = 0
           /\ hist' = Hist0
           /\ pc' \in {"parse", "exited"}
           /\ pc' = "exited" => exitCode' = 2]_vars

\* C20 witness: the command line was malformed and the process has exited
\* with the old content of a file that existed before.
C20_Witness ==
    /\ argv = "invalid"
    /\ pc = "exited"
    /\ exitCode = 2
    /\ file = OldContent
    /\ handle = "none"

\* ceil(d / i) for i >= 1.
CeilDiv(d, i) == (d + i - 1) \div i

\* C15: in a run without cancellation and without sink failure, with
\* interval >= 1 and duration >= 1, the loop returns after at least 1 and
\* at most ceil(duration / interval) + 1 completed ticks, however long the
\* work of each tick takes, and every tick begun is completed; with
\* interval 1 and duration 3, after at least 1 and at most 4.
C15_TickCount ==
    result = "ok" =>
        /\ hist.done = hist.ticks
        /\ hist.done >= 1
        /\ hist.done <= CeilDiv(duration, interval) + 1
        /\ (interval = 1 /\ duration = 3) => hist.done \in 1..4

\* C15 witness: a run with interval 1 and duration 3 has returned after
\* three completed ticks, the clock having advanced during their work.
C15_Witness ==
    /\ interval = 1
    /\ duration = 3
    /\ result = "ok"
    /\ hist.done = 3
    /\ now > duration

\* C19: the loop always terminates: once entered it eventually returns,
\* Ok or an error, for every interval, 0 included, and every duration,
\* whether or not a signal is ever delivered or handled; and once the flag
\* is cleared no further tick is begun, so the loop returns after at most
\* the tick in progress.
C19_LoopTerminates ==
    /\ (pc \in InLoop) ~> (result # "none")
    /\ [][~running => hist'.ticks = hist.ticks]_vars

\* C19 witness: a loop with interval 0 has returned at the deadline after
\* at least one tick, no signal having been delivered.
C19_Witness ==
    /\ interval = 0
    /\ duration > 0
    /\ result = "ok"
    /\ hist.done >= 1
    /\ delivered = 0
    /\ now - start_time >= duration

====
